---- MODULE Spec2Model ----
(***************************************************************************)
(* News summarization tool: the preference/history store (UserManager),    *)
(* the article retriever's normalisation (NewsRetriever), the embedding    *)
(* index (EmbeddingEngine) and the orchestrator (NewsApp).                  *)
(*                                                                         *)
(* Python values are modelled as follows: a dict is a function from its    *)
(* keys, a list is a sequence, a str is a string, an int is an integer,    *)
(* None is the string None (no str of the model equals it).                *)
(***************************************************************************)
EXTENDS Integers, Sequences, FiniteSets, TLC

VARIABLES
    file,           \* content of the user-data file (user_data.json)
    user_data,      \* UserManager.user_data, the in-memory document
    phase,          \* "ready": the Store is constructed; "crashed": construction raised
    loadedFrom,     \* what the user-data file held when the Store was constructed
    clock,          \* the wall clock read by datetime.now()
    last,           \* the last operation called: name, argument, result, exception
    raw,            \* the raw provider records handed to extract_article_content
    vector_db_type, \* EmbeddingEngine.vector_db_type
    vector_db,      \* EmbeddingEngine.vector_db: None or the index held in memory
    persist_dir,    \* the index persisted under EmbeddingEngine.persist_directory
    built,          \* a create_vector_db call has completed
    loaded,         \* a load_vector_db call has reconstituted the index
    menu,           \* the prompt run_cli waits at, or "exited"
    shown           \* the articles list (and the article) the articles menus work on

vars == <<file, user_data, phase, loadedFrom, clock, last, raw,
          vector_db_type, vector_db, persist_dir, built, loaded, menu, shown>>

storeVars == <<file, user_data, phase, loadedFrom, clock>>
engineVars == <<vector_db_type, vector_db, persist_dir, built, loaded>>
cliVars == <<menu, shown>>
appVars == <<raw, engineVars, cliVars>>

----
\* Bounds of the model.
MaxTopics == 3      \* longest topics list add_topic is called on
MaxHistory == 2     \* longest search history add_search_history is called on
MaxRecords == 2     \* longest list of raw provider records
MaxIndex == 3       \* most documents a vector store is grown to
MaxSearches == 1    \* most searches one run of run_cli logs

Topics == {"ai", "bio"}
Queries == {"ai"}

None == "None"
NoExc == "none"

Range(s) == {s[i] : i \in DOMAIN s}
Min(a, b) == IF a < b THEN a ELSE b
Max(a, b) == IF a > b THEN a ELSE b

\* Python: x in d / d[k] is defined
Has(d, k) == k \in DOMAIN d

\* Python: d1.update(d2), a shallow merge
DictUpdate(d1, d2) ==
    [k \in DOMAIN d1 \cup DOMAIN d2 |-> IF k \in DOMAIN d2 THEN d2[k] ELSE d1[k]]

EmptyDict == [k \in {} |-> None]

----
\* JSON text, as the tree json.dump writes and json.load parses.
JStr(s) == [t |-> "string", s |-> s]
JNum(n) == [t |-> "number", n |-> n]
JArr(items) == [t |-> "array", items |-> items]
JObj(members) == [t |-> "object", members |-> members]
JMember(k, v) == [k |-> k, v |-> v]

\* The members of an object, in the key order given, for the keys it has;
\* enc maps each key to its encoded value.
Members(enc, order) ==
    LET ks == SelectSeq(order, LAMBDA k : Has(enc, k))
    IN [i \in DOMAIN ks |-> JMember(ks[i], enc[ks[i]])]

EncodePreference(k, v) ==
    CASE k = "topics" -> JArr([i \in DOMAIN v |-> JStr(v[i])])
      [] k = "articles_per_topic" -> JNum(v)
      [] OTHER -> JStr(v)

EncodeEntryField(k, v) ==
    IF k = "num_results" THEN JNum(v) ELSE JStr(v)

EncodePreferences(p) ==
    JObj(Members([k \in DOMAIN p |-> EncodePreference(k, p[k])],
                 <<"topics", "summary_type", "language", "articles_per_topic">>))

EncodeEntry(e) ==
    JObj(Members([k \in DOMAIN e |-> EncodeEntryField(k, e[k])],
                 <<"query", "timestamp", "num_results">>))

EncodeDocField(k, v) ==
    IF k = "preferences" THEN EncodePreferences(v)
    ELSE JArr([i \in DOMAIN v |-> EncodeEntry(v[i])])

\* json.dump(self.user_data, f, indent=2)
json_dump(d) ==
    JObj(Members([k \in DOMAIN d |-> EncodeDocField(k, d[k])],
                 <<"preferences", "search_history">>))

\* json.load: an object becomes a dict (the last member of a key wins), an
\* array a list, a string a str, a number an int.
RECURSIVE json_load(_)
json_load(j) ==
    CASE j.t = "string" -> j.s
      [] j.t = "number" -> j.n
      [] j.t = "array" -> [i \in DOMAIN j.items |-> json_load(j.items[i])]
      [] j.t = "object" ->
            LET ms == j.members
                LastOf(k) == CHOOSE i \in DOMAIN ms :
                                /\ ms[i].k = k
                                /\ \A i2 \in DOMAIN ms : ms[i2].k = k => i2 <= i
            IN [k \in {ms[i].k : i \in DOMAIN ms} |-> json_load(ms[LastOf(k)].v)]

\* The user-data file on disk.
FileAbsent == [kind |-> "absent"]
FileMalformed == [kind |-> "malformed"]      \* text that is no JSON document
FileUndecodable == [kind |-> "undecodable"]  \* bytes that are no text in the file encoding
FileText(j) == [kind |-> "text", text |-> j]

----
\* UserManager

_create_default_user_data ==
    [preferences |-> [topics |-> <<>>, summary_type |-> "brief",
                      language |-> "en", articles_per_topic |-> 5],
     search_history |-> <<>>]

\* The result of _load_user_data: the document, or the exception it lets out.
\* open(..., "r") and json.load raise UnicodeDecodeError on bytes that are no
\* text; only json.JSONDecodeError is caught.
_load_user_data(f) ==
    CASE f.kind = "absent" -> [exc |-> NoExc, value |-> _create_default_user_data]
      [] f.kind = "malformed" -> [exc |-> NoExc, value |-> _create_default_user_data]
      [] f.kind = "undecodable" -> [exc |-> "UnicodeDecodeError", value |-> EmptyDict]
      [] f.kind = "text" -> [exc |-> NoExc, value |-> json_load(f.text)]

save_user_data_prefs_only(d) ==
    FileText(json_dump([k \in DOMAIN d \ {"search_history"} |-> d[k]]))

\* save_user_data: the file the call leaves for document d
save_user_data(d) == FileText(json_dump(d))

get_preferences(d) == d["preferences"]
get_topics(d) == d["preferences"]["topics"]

\* d["preferences"]["topics"] can be evaluated
HasTopics(d) == Has(d, "preferences") /\ Has(d["preferences"], "topics")

WithPreferences(d, p) == [d EXCEPT !["preferences"] = p]
WithTopics(d, ts) == [d EXCEPT !["preferences"]["topics"] = ts]

\* list.remove(x): the list without its first x
ListRemoveAll(s, x) == SelectSeq(s, LAMBDA y : y # x)

ListRemove(s, x) ==
    LET i == CHOOSE i \in DOMAIN s : s[i] = x /\ \A j \in 1..(i - 1) : s[j] # x
    IN SubSeq(s, 1, i - 1) \o SubSeq(s, i + 1, Len(s))

\* s[start:] of Python
SliceFrom(s, start) ==
    LET n == Len(s)
        st == IF start < 0 THEN Max(start + n, 0) ELSE Min(start, n)
    IN SubSeq(s, st + 1, n)

\* get_search_history: self.user_data["search_history"][-limit:]
get_search_history(h, limit) == SliceFrom(h, -limit)

\* datetime.now().isoformat(): the instant, as ISO-8601 text
isoformat(now) == [iso |-> now]

\* The record of a call: exc is the exception the call let out, caught the
\* exception it caught on the way (none for the Store's and the engine's own
\* methods, which catch nothing the model follows); again tells, for a
\* method of the Store, that the call before it was the same method on the
\* same argument.
Called(op, arg, ret, exc, saved, again) ==
    [op |-> op, arg |-> arg, ret |-> ret, exc |-> exc, saved |-> saved,
     again |-> again, caught |-> NoExc]

\* What a call leaves: the document, the file, the value returned, the
\* exception raised, and whether it reached save_user_data.
Outcome(d, f, ret, exc, saved) ==
    [doc |-> d, file |-> f, ret |-> ret, exc |-> exc, saved |-> saved, caught |-> NoExc]

\* The outcome of a call that caught exception c on the way
Catching(outcome, c) == [outcome EXCEPT !.caught = c]

Saved(d, ret) == Outcome(d, save_user_data(d), ret, NoExc, TRUE)

update_preferences(d, f, preferences) ==
    IF ~Has(d, "preferences") THEN Outcome(d, f, None, "KeyError", FALSE)
    ELSE Saved(WithPreferences(d, DictUpdate(d["preferences"], preferences)), None)

add_topic_unchecked(d, f, topic) ==
    IF ~HasTopics(d) THEN Outcome(d, f, None, "KeyError", FALSE)
    ELSE Saved(WithTopics(d, Append(get_topics(d), topic)), None)

add_topic(d, f, topic) ==
    IF ~HasTopics(d) THEN Outcome(d, f, None, "KeyError", FALSE)
    ELSE IF topic \notin Range(get_topics(d))
         THEN Saved(WithTopics(d, Append(get_topics(d), topic)), None)
         ELSE Outcome(d, f, None, NoExc, FALSE)

remove_topic(d, f, topic) ==
    IF ~HasTopics(d) THEN Outcome(d, f, None, "KeyError", FALSE)
    ELSE IF topic \in Range(get_topics(d))
         THEN Saved(WithTopics(d, ListRemove(get_topics(d), topic)), TRUE)
         ELSE Outcome(d, f, FALSE, NoExc, FALSE)

SearchHistoryEntry(query, now, num_results) ==
    [query |-> query, timestamp |-> isoformat(now), num_results |-> num_results]

add_search_history(d, f, now, query, num_results) ==
    IF ~Has(d, "search_history") THEN Outcome(d, f, None, "KeyError", FALSE)
    ELSE Saved([d EXCEPT !["search_history"] =
                    Append(@, SearchHistoryEntry(query, now, num_results))], None)

----
\* NewsRetriever

\* Python: d.get(k, default)
DictGet(d, k, default) == IF Has(d, k) THEN d[k] ELSE default

\* The value a raw record carries under "source": a dict or None.
DictObject(items) == [type |-> "dict", items |-> items]
NoneObject == [type |-> "NoneType"]

\* article.get("source", {}).get("name", "Unknown Source"); the second get
\* raises AttributeError when the first returned None.
SourceName(article) ==
    LET source == DictGet(article, "source", DictObject(EmptyDict))
    IN IF source.type = "dict"
       THEN [exc |-> NoExc, value |-> DictGet(source.items, "name", "Unknown Source")]
       ELSE [exc |-> "AttributeError", value |-> None]

\* The body of the loop of extract_article_content, for one record that
\* does not raise.
ExtractedContent(article) ==
    [title |-> DictGet(article, "title", ""),
     source |-> SourceName(article).value,
     author |-> DictGet(article, "author", "Unknown Author"),
     description |-> DictGet(article, "description", ""),
     content |-> DictGet(article, "content", ""),
     url |-> DictGet(article, "url", ""),
     publishedAt |-> DictGet(article, "publishedAt", ""),
     urlToImage |-> DictGet(article, "urlToImage", "")]

extract_article_content(articles) ==
    IF \E i \in DOMAIN articles : SourceName(articles[i]).exc # NoExc
    THEN [exc |-> "AttributeError", value |-> None]
    ELSE [exc |-> NoExc,
          value |-> [i \in DOMAIN articles |-> ExtractedContent(articles[i])]]

----
\* EmbeddingEngine

\* self.vector_db: None, or a vector store holding documents
NoIndex == [kind |-> "None"]
Index(docs) == [kind |-> "index", docs |-> docs]
Held(db) == IF db = NoIndex THEN <<>> ELSE db.docs

\* The directory self.persist_directory: absent, or holding a stored index
NoDirectory == [kind |-> "absent"]
Directory(docs) == [kind |-> "index", docs |-> docs]
Stored(dir) == IF dir = NoDirectory THEN <<>> ELSE dir.docs

\* f"{value}"
Format(value) == IF value = None THEN "None" ELSE value

_prepare_documents(articles) ==
    [i \in DOMAIN articles |->
        LET article == articles[i]
        IN [id |-> DictGet(article, "url", ""),
            text |-> <<Format(article["title"]), " ", Format(article["description"]),
                       " ", Format(article["content"])>>,
            metadata |-> [title |-> DictGet(article, "title", ""),
                          source |-> DictGet(article, "source", ""),
                          author |-> DictGet(article, "author", ""),
                          url |-> DictGet(article, "url", ""),
                          publishedAt |-> DictGet(article, "publishedAt", ""),
                          urlToImage |-> DictGet(article, "urlToImage", "")]]]

\* What from_texts(texts=texts, metadatas=metadatas) puts in a store
Entries(documents) ==
    [i \in DOMAIN documents |->
        [page_content |-> documents[i].text, metadata |-> documents[i].metadata]]

EngineOutcome(db, dir, ret, exc, assigned) ==
    [db |-> db, dir |-> dir, ret |-> ret, exc |-> exc, assigned |-> assigned,
     caught |-> NoExc]

\* create_vector_db; backend tells whether the embedding model and the
\* vector store library do their work ("ok") or raise.
\* Chroma.from_texts(..., persist_directory=d) opens the collection stored
\* under d (creating it when there is none) and adds the texts to it;
\* FAISS.from_texts builds a new index and save_local overwrites the
\* directory.
create_vector_db(type, db, dir, articles, backend) ==
    LET entries == Entries(_prepare_documents(articles))
    IN CASE type = "chroma" /\ backend = "ok" ->
              EngineOutcome(Index(Stored(dir) \o entries),
                            Directory(Stored(dir) \o entries), None, NoExc, TRUE)
         [] type = "faiss" /\ backend = "ok" ->
              EngineOutcome(Index(entries), Directory(entries), None, NoExc, TRUE)
         [] type \in {"chroma", "faiss"} /\ backend # "ok" ->
              EngineOutcome(db, dir, None, backend, FALSE)
         [] OTHER -> EngineOutcome(db, dir, None, "ValueError", FALSE)

\* load_vector_db: Chroma(persist_directory=d) opens or creates the stored
\* collection; FAISS.load_local raises when d holds no index; any other
\* type falls through both branches.
load_vector_db(type, db, dir, backend) ==
    CASE type = "chroma" /\ backend = "ok" ->
            EngineOutcome(Index(Stored(dir)), Directory(Stored(dir)), TRUE, NoExc, TRUE)
      [] type = "faiss" /\ backend = "ok" /\ dir # NoDirectory ->
            EngineOutcome(Index(dir.docs), dir, TRUE, NoExc, TRUE)
      [] type \in {"chroma", "faiss"} -> EngineOutcome(db, dir, FALSE, NoExc, FALSE)
      [] OTHER -> EngineOutcome(db, dir, TRUE, NoExc, FALSE)

NotInitialized == "ValueError: Vector database not initialized"

\* The orders in which similarity_search(query, k) can return documents of
\* a store of n documents: the k nearest, nearest first, as the embedding
\* model ranks them.
Rankings(n, k) ==
    {r \in [1..Min(k, n) -> 1..n] : \A i, j \in DOMAIN r : r[i] = r[j] => i = j}

\* {"text": doc.page_content, **doc.metadata}
SimilarArticle(doc) == DictUpdate([text |-> doc.page_content], doc.metadata)

search_similar_articles_unguarded(db, ranking) ==
    IF db = NoIndex THEN [exc |-> NoExc, value |-> <<>>]
    ELSE [exc |-> NoExc,
          value |-> [i \in DOMAIN ranking |-> SimilarArticle(db.docs[ranking[i]])]]

\* search_similar_articles: "not self.vector_db" is taken as vector_db is None
search_similar_articles(db, ranking) ==
    IF db = NoIndex THEN [exc |-> NotInitialized, value |-> None]
    ELSE [exc |-> NoExc,
          value |-> [i \in DOMAIN ranking |-> SimilarArticle(db.docs[ranking[i]])]]

----
\* Summarizer

\* Python truth of a field value: neither None nor the empty string
Truthy(value) == value # None /\ value # ""

\* _prepare_document: the sections of the composite text, in order;
\* article['title'] and article['source'] raise KeyError on a missing key.
_prepare_document(article) ==
    IF ~Has(article, "title") \/ ~Has(article, "source")
    THEN [exc |-> "KeyError", value |-> <<>>]
    ELSE [exc |-> NoExc,
          value |->
            <<[label |-> "Title", value |-> Format(article["title"])],
              [label |-> "Source", value |-> Format(article["source"])]>>
            \o (IF Truthy(DictGet(article, "description", None))
                THEN <<[label |-> "Description", value |-> Format(article["description"])]>>
                ELSE <<>>)
            \o (IF Truthy(DictGet(article, "content", None))
                THEN <<[label |-> "Content", value |-> Format(article["content"])]>>
                ELSE <<>>)]

\* summarize; llm tells whether the remote model answers ("ok") or raises
summarize(article, summary_type, llm) ==
    LET docs == _prepare_document(article)
    IN IF docs.exc # NoExc THEN [exc |-> docs.exc, value |-> None]
       ELSE IF llm # "ok" THEN [exc |-> llm, value |-> None]
       ELSE [exc |-> NoExc,
             value |-> IF summary_type = "brief"
                       THEN [chain_type |-> "map_reduce", template |-> "brief",
                             docs |-> docs.value]
                       ELSE [chain_type |-> "stuff", template |-> "detailed",
                             docs |-> docs.value]]

----
\* NewsApp

\* What get_articles gives back: it raises, or returns the provider's answer
Raises(exc) == [exc |-> exc, value |-> None, caught |-> NoExc]
Returns(value) == [exc |-> NoExc, value |-> value, caught |-> NoExc]

\* The try block of search_news; exc is the exception that ends it.
search_news_try(d, f, now, query, response) ==
    LET nothing(exc) == Outcome(d, f, <<>>, exc, FALSE)
    IN IF response.exc # NoExc THEN nothing(response.exc)
       ELSE IF ~Has(response.value, "status") THEN nothing("KeyError")
       ELSE IF response.value["status"] = "ok"
       THEN LET articles == extract_article_content(response.value["articles"])
            IN IF articles.exc # NoExc THEN nothing(articles.exc)
               ELSE LET h == add_search_history(d, f, now, query, Len(articles.value))
                    IN IF h.exc # NoExc THEN nothing(h.exc)
                       ELSE Outcome(h.doc, h.file, articles.value, NoExc, TRUE)
       ELSE nothing(NoExc)

search_news_uncaught(d, f, now, query, response) ==
    search_news_try(d, f, now, query, response)

\* search_news: every exception of the try block ends in return []
search_news(d, f, now, query, response) ==
    LET r == search_news_try(d, f, now, query, response)
    IN IF r.exc # NoExc THEN Catching(Outcome(d, f, <<>>, NoExc, FALSE), r.exc) ELSE r

add_articles_to_vector_db(type, db, dir, articles, backend) ==
    LET r == create_vector_db(type, db, dir, articles, backend)
    IN IF r.exc # NoExc
       THEN Catching(EngineOutcome(db, dir, None, NoExc, FALSE), r.exc)
       ELSE r

find_similar_articles(db, ranking) ==
    LET r == search_similar_articles(db, ranking)
    IN IF r.exc # NoExc THEN Catching(Returns(<<>>), r.exc) ELSE Returns(r.value)

ErrorSummary == "Error generating summary"

\* summarize_article: the stored summary_type is read outside the try block
summarize_article(d, article, summary_type, llm) ==
    IF summary_type = None
       /\ ~(Has(d, "preferences") /\ Has(d["preferences"], "summary_type"))
    THEN Raises("KeyError")
    ELSE LET type == IF summary_type = None THEN get_preferences(d)["summary_type"]
                     ELSE summary_type
             r == summarize(article, type, llm)
         IN IF r.exc # NoExc THEN Catching(Returns(ErrorSummary), r.exc)
            ELSE Returns(r.value)

\* preferences["articles_per_topic"] can be evaluated
HasPageSize(d) == Has(d, "preferences") /\ Has(d["preferences"], "articles_per_topic")

\* The part _search_news_menu and _view_saved_topics_menu share: search,
\* return when nothing was found, else rebuild the index and show the
\* articles. found: the articles search_news returned; searched: a history
\* entry was written; exc: the exception that leaves the menu; caught: the
\* exception search_news or add_articles_to_vector_db caught.
SearchAndIndex(d, f, now, type, db, dir, query, response, backend) ==
    IF ~HasPageSize(d)
    THEN [doc |-> d, file |-> f, db |-> db, dir |-> dir, found |-> <<>>,
          searched |-> FALSE, rebuilt |-> FALSE, exc |-> "KeyError", caught |-> NoExc]
    ELSE LET s == search_news(d, f, now, query, response)
             e == IF s.ret = <<>> THEN EngineOutcome(db, dir, None, NoExc, FALSE)
                  ELSE add_articles_to_vector_db(type, db, dir, s.ret, backend)
         IN [doc |-> s.doc, file |-> s.file, db |-> e.db, dir |-> e.dir,
             found |-> s.ret, searched |-> s.saved, rebuilt |-> e.assigned,
             exc |-> NoExc,
             caught |-> IF s.caught # NoExc THEN s.caught ELSE e.caught]

----
\* The text typed at a prompt: a str is the sequence of its characters here,
\* so that upper, lower, len and int are computed from the characters.
RECURSIVE Text(_)
Text(cs) == IF cs = <<>> THEN "" ELSE cs[1] \o Text(Tail(cs))

Lowercase == <<"a", "b", "c", "d", "e", "f", "g", "h", "i", "j", "k", "l", "m",
               "n", "o", "p", "q", "r", "s", "t", "u", "v", "w", "x", "y", "z">>
Uppercase == <<"A", "B", "C", "D", "E", "F", "G", "H", "I", "J", "K", "L", "M",
               "N", "O", "P", "Q", "R", "S", "T", "U", "V", "W", "X", "Y", "Z">>
Digits == <<"0", "1", "2", "3", "4", "5", "6", "7", "8", "9">>
IndexOf(s, c) == CHOOSE i \in DOMAIN s : s[i] = c

\* str.upper, str.lower
upper(cs) ==
    [i \in DOMAIN cs |-> IF cs[i] \in Range(Lowercase)
                         THEN Uppercase[IndexOf(Lowercase, cs[i])] ELSE cs[i]]
lower(cs) ==
    [i \in DOMAIN cs |-> IF cs[i] \in Range(Uppercase)
                         THEN Lowercase[IndexOf(Uppercase, cs[i])] ELSE cs[i]]

Reverse(cs) == [i \in DOMAIN cs |-> cs[Len(cs) + 1 - i]]
RECURSIVE lstrip(_)
lstrip(cs) == IF cs # <<>> /\ cs[1] = " " THEN lstrip(Tail(cs)) ELSE cs
strip(cs) == Reverse(lstrip(Reverse(lstrip(cs))))

RECURSIVE DecimalValue(_)
DecimalValue(ds) ==
    IF ds = <<>> THEN 0
    ELSE 10 * DecimalValue(SubSeq(ds, 1, Len(ds) - 1)) + (IndexOf(Digits, ds[Len(ds)]) - 1)

\* int(text): surrounding blanks and one sign are accepted around decimal
\* digits; anything else raises ValueError.
int(cs) ==
    LET t == strip(cs)
        signed == t # <<>> /\ t[1] \in {"+", "-"}
        ds == IF signed THEN Tail(t) ELSE t
    IN IF ds = <<>> \/ \E i \in DOMAIN ds : ds[i] \notin Range(Digits)
       THEN [exc |-> "ValueError", value |-> 0]
       ELSE [exc |-> NoExc,
             value |-> IF signed /\ t[1] = "-" THEN 0 - DecimalValue(ds)
                       ELSE DecimalValue(ds)]

----
\* NewsRetriever.get_articles: the parameters of the request it issues (the
\* API key aside); strftime("%Y-%m-%d") keeps the day of an instant.
strftime(t) == [date |-> t]

get_articles(query, language, sort_by, page_size, page, days_back, now) ==
    [q |-> query, language |-> language, sortBy |-> sort_by, pageSize |-> page_size,
     page |-> page, from |-> strftime(now - days_back), to |-> strftime(now)]

\* The request search_news(query, page_size=page_size) issues from a menu
\* working on document d.
MenuRequest_localized(d, query, now) ==
    get_articles(query, get_preferences(d)["language"], "publishedAt",
                 get_preferences(d)["articles_per_topic"], 1, 7, now)

MenuRequest(d, query, now) ==
    get_articles(query, "en", "publishedAt", get_preferences(d)["articles_per_topic"],
                 1, 7, now)

----
\* NewsApp.run_cli and its menus, one operator per input() they wait at.
\* self holds what a handler reads: doc, file, now, type, db, dir, shown.

\* What a handler showed: the message printed, the summaries displayed
Printed(message) == [printed |-> message, summaries |-> <<>>]

\* What handling one input leaves: menu is the prompt run_cli waits at next,
\* ret what was printed or displayed, exc the exception that left run_cli.
Step(self, next, message) ==
    [doc |-> self.doc, file |-> self.file, db |-> self.db, dir |-> self.dir,
     rebuilt |-> FALSE, searched |-> FALSE, menu |-> next, shown |-> self.shown,
     ret |-> Printed(message), exc |-> NoExc]

Leaves(self, exc) == [Step(self, "main", None) EXCEPT !.exc = exc]

InvalidChoice == "Invalid choice. Please try again."

\* The header of _update_preferences_menu can be printed
PreferencesShown(d) ==
    /\ Has(d, "preferences")
    /\ \A k \in {"summary_type", "articles_per_topic", "language"} : Has(d["preferences"], k)

\* The main menu
run_cli(self, choice) ==
    LET c == Text(choice)
        d == self.doc
    IN CASE c = "1" -> Step(self, "search_query", None)
         [] c = "2" -> IF ~HasTopics(d) THEN Leaves(self, "KeyError")
                       ELSE IF get_topics(d) = <<>>
                            THEN Step(self, "main", "No saved topics found.")
                            ELSE Step(self, "saved_topics", None)
         [] c = "3" -> IF ~HasTopics(d) THEN Leaves(self, "KeyError")
                       ELSE Step(self, "manage_topics", None)
         [] c = "4" -> IF ~Has(d, "search_history") THEN Leaves(self, "KeyError")
                       ELSE IF get_search_history(d["search_history"], 10) = <<>>
                            THEN Step(self, "main", "No search history found.")
                            ELSE Step(self, "search_history", None)
         [] c = "5" -> IF ~PreferencesShown(d) THEN Leaves(self, "KeyError")
                       ELSE Step(self, "preferences", None)
         [] c = "6" -> Step(self, "exited",
                            "Thank you for using News Summarizer App. Goodbye!")
         [] OTHER -> Step(self, "main", InvalidChoice)

\* After SearchAndIndex left r: back to prompt empty when nothing was found,
\* else on to _display_articles_menu, which returns to prompt back.
Searched(self, r, empty, back) ==
    IF r.exc # NoExc THEN Leaves(self, r.exc)
    ELSE [doc |-> r.doc, file |-> r.file, db |-> r.db, dir |-> r.dir,
          rebuilt |-> r.rebuilt, searched |-> r.searched,
          menu |-> IF r.found = <<>> THEN empty ELSE "articles",
          shown |-> IF r.found = <<>> THEN self.shown
                    ELSE [articles |-> r.found, index |-> 0, back |-> back],
          ret |-> Printed(IF r.found = <<>> THEN "No articles found." ELSE None),
          exc |-> NoExc]

\* The query prompt of _search_news_menu
_search_news_menu(self, query, response, backend) ==
    IF query = <<>> THEN Step(self, "main", "Search query cannot be empty.")
    ELSE Searched(self,
                  SearchAndIndex(self.doc, self.file, self.now, self.type, self.db,
                                 self.dir, Text(query), response, backend),
                  "main", "main")

\* display_article: textwrap.fill(article.get('description', ...)) raises
\* AttributeError on a description of None.
display_article(article) ==
    IF DictGet(article, "description", "No description available") = None
    THEN "AttributeError" ELSE NoExc

HasSummaryType(d) == Has(d, "preferences") /\ Has(d["preferences"], "summary_type")

_summarize_all_articles(self, articles, llm) ==
    IF ~HasSummaryType(self.doc) THEN Leaves(self, "KeyError")
    ELSE LET summary_type == get_preferences(self.doc)["summary_type"]
             summaries == [i \in DOMAIN articles |->
                              summarize_article(self.doc, articles[i], summary_type,
                                                llm).value]
         IN IF \E i \in DOMAIN articles : display_article(articles[i]) # NoExc
            THEN Leaves(self, "AttributeError")
            ELSE [Step(self, "articles", None) EXCEPT !.ret.summaries = summaries]

_display_articles_menu(self, choice, llm) ==
    LET c == Text(upper(choice))
        articles == self.shown.articles
        n == int(choice)
    IN CASE c = "B" -> [Step(self, self.shown.back, None)
                        EXCEPT !.shown = [articles |-> <<>>, index |-> 0, back |-> "main"]]
         [] c = "S" -> _summarize_all_articles(self, articles, llm)
         [] OTHER ->
              IF n.exc # NoExc THEN Step(self, "articles", InvalidChoice)
              ELSE IF 0 <= n.value - 1 /\ n.value - 1 < Len(articles)
                   THEN IF ~HasSummaryType(self.doc) THEN Leaves(self, "KeyError")
                        ELSE [Step(self, "article", None)
                              EXCEPT !.shown.index = n.value]
                   ELSE Step(self, "articles", "Invalid article number.")

\* Choices 2 and 3 of _view_article_menu
Summarized(self, article, summary_type, llm) ==
    LET summary == summarize_article(self.doc, article, summary_type, llm).value
    IN IF display_article(article) # NoExc
       THEN Leaves(self, display_article(article))
       ELSE [Step(self, "article", None) EXCEPT !.ret.summaries = <<summary>>]

_view_article_menu(self, choice, llm) ==
    LET c == Text(choice)
        article == self.shown.articles[self.shown.index]
    IN CASE c = "1" -> IF display_article(article) # NoExc
                       THEN Leaves(self, display_article(article))
                       ELSE Step(self, "article", None)
         [] c = "2" -> Summarized(self, article, "brief", llm)
         [] c = "3" -> Summarized(self, article, "detailed", llm)
         [] c = "4" -> [Step(self, "articles", None) EXCEPT !.shown.index = 0]
         [] OTHER -> Step(self, "article", InvalidChoice)

_view_saved_topics_menu(self, choice, response, backend) ==
    LET c == Text(upper(choice))
        topics == get_topics(self.doc)
        n == int(choice)
    IN IF c = "B" THEN Step(self, "main", None)
       ELSE IF n.exc # NoExc THEN Step(self, "saved_topics", InvalidChoice)
       ELSE IF 0 <= n.value - 1 /\ n.value - 1 < Len(topics)
            THEN Searched(self,
                          SearchAndIndex(self.doc, self.file, self.now, self.type,
                                         self.db, self.dir, topics[n.value], response,
                                         backend),
                          "saved_topics", "saved_topics")
            ELSE Step(self, "saved_topics", "Invalid topic number.")

_manage_topics_menu(self, choice) ==
    LET c == Text(upper(choice))
    IN CASE c = "A" -> Step(self, "add_topic", None)
         [] c = "R" -> IF get_topics(self.doc) = <<>>
                       THEN Step(self, "manage_topics", "No topics to remove.")
                       ELSE Step(self, "remove_topic", None)
         [] c = "B" -> Step(self, "main", None)
         [] OTHER -> Step(self, "manage_topics", InvalidChoice)

\* A Store call made from a menu: its document and file, then prompt next
StoreStep(self, r, next, ret) ==
    IF r.exc # NoExc THEN Leaves(self, r.exc)
    ELSE [Step(self, next, ret) EXCEPT !.doc = r.doc, !.file = r.file]

\* The prompt "Enter topic to add: "
_manage_topics_menu_add(self, topic) ==
    IF topic # <<>>
    THEN StoreStep(self, add_topic(self.doc, self.file, Text(topic)), "manage_topics",
                   "Topic added successfully.")
    ELSE Step(self, "manage_topics", "Topic cannot be empty.")

\* The prompt "Enter topic number to remove: "
_manage_topics_menu_remove(self, topic_num) ==
    LET topics == get_topics(self.doc)
        n == int(topic_num)
    IN IF n.exc # NoExc THEN Step(self, "manage_topics", "Invalid topic number.")
       ELSE IF 0 <= n.value - 1 /\ n.value - 1 < Len(topics)
            THEN LET r == remove_topic(self.doc, self.file, topics[n.value])
                 IN StoreStep(self, r, "manage_topics",
                              IF r.ret = TRUE THEN "Topic removed successfully."
                              ELSE "Failed to remove topic.")
            ELSE Step(self, "manage_topics", "Invalid topic number.")

\* _view_search_history_menu waits for Enter
_view_search_history_menu(self) == Step(self, "main", None)

_update_preferences_menu(self, choice) ==
    LET c == Text(choice)
    IN CASE c = "1" -> Step(self, "summary_type", None)
         [] c = "2" -> Step(self, "articles_per_topic", None)
         [] c = "3" -> Step(self, "language", None)
         [] Text(upper(choice)) = "B" -> Step(self, "main", None)
         [] OTHER -> Step(self, "preferences", InvalidChoice)

\* preferences[k] = v; self.user_manager.update_preferences(preferences),
\* where preferences is the dict get_preferences returned, the Store's own.
Assign(self, k, v, ret) ==
    LET d == WithPreferences(self.doc, DictUpdate(get_preferences(self.doc), k :> v))
    IN StoreStep(self, update_preferences(d, self.file, get_preferences(d)),
                 "preferences", ret)

\* The prompt "Enter your choice (1-2): "
_update_preferences_menu_summary_type(self, summary_choice) ==
    LET c == Text(summary_choice)
    IN CASE c = "1" -> Assign(self, "summary_type", "brief", "Summary type updated.")
         [] c = "2" -> Assign(self, "summary_type", "detailed", "Summary type updated.")
         [] OTHER -> Step(self, "preferences", "Invalid choice.")

_update_preferences_menu_articles_per_topic_unchecked(self, text) ==
    LET num == int(text)
    IN IF num.exc # NoExc THEN Step(self, "preferences", "Invalid number.")
       ELSE Assign(self, "articles_per_topic", num.value, "Articles per topic updated.")

\* The prompt "Enter number of articles per topic (1-20): "
_update_preferences_menu_articles_per_topic(self, text) ==
    LET num == int(text)
    IN IF num.exc # NoExc THEN Step(self, "preferences", "Invalid number.")
       ELSE IF 1 <= num.value /\ num.value <= 20
            THEN Assign(self, "articles_per_topic", num.value,
                        "Articles per topic updated.")
            ELSE Step(self, "preferences", "Number must be between 1 and 20.")

\* The prompt "Enter language code (e.g., 'en', 'fr', 'es'): "
_update_preferences_menu_language(self, lang) ==
    IF lang # <<>> /\ Len(lang) = 2
    THEN Assign(self, "language", Text(lower(lang)), "Language updated.")
    ELSE Step(self, "preferences", "Invalid language code.")

----
\* The inputs of the model.

\* A user-data file an earlier run left, with saved topics and one search.
EarlierDocument ==
    [preferences |-> [topics |-> <<"ai", "bio">>, summary_type |-> "detailed",
                      language |-> "en", articles_per_topic |-> 5],
     search_history |-> <<SearchHistoryEntry("ai", 0, 1)>>]

InitialFiles ==
    {FileAbsent, FileMalformed, FileUndecodable,
     FileText(json_dump(EarlierDocument)),
     FileText(JObj(<<>>))}          \* the JSON document {}

PartialPreferences ==
    {EmptyDict}
    \cup {[summary_type |-> s] : s \in {"brief", "detailed", "verbose"}}
    \cup {[articles_per_topic |-> n] : n \in {1, 21}}
    \cup {[topics |-> ts] : ts \in {<<>>, <<"ai", "ai">>}}
    \cup {[summary_type |-> "detailed", language |-> "fr"]}

Limits == 0..(MaxHistory + 1)
SearchInputs == {<<"ai", 0>>, <<"bio", 1>>}    \* a query and its number of results

\* Raw provider records: each optional field is missing, carried without a
\* value (None), or carries a text (the field's own name stands for it).
SimpleKeys == {"title", "author", "description", "content", "url", "publishedAt",
               "urlToImage"}
SourceValues ==
    {NoneObject, DictObject(EmptyDict), DictObject([name |-> None]),
     DictObject([name |-> "source name"])}
WithSource(r) == {r} \cup {DictUpdate(r, [source |-> v]) : v \in SourceValues}
SimpleRecords ==
    UNION {{[k \in S |-> IF valued[k] THEN k ELSE None] : valued \in [S -> BOOLEAN]} :
             S \in SUBSET SimpleKeys}
RawRecords == UNION {WithSource(r) : r \in SimpleRecords}
CompleteRecord == DictUpdate([k \in SimpleKeys |-> k],
                             [source |-> DictObject([name |-> "source name"])])
BareRecord == [title |-> "title", url |-> None]
NoSourceRecord == DictUpdate([k \in SimpleKeys |-> k], [source |-> NoneObject])
SampleRecords == {CompleteRecord, BareRecord, NoSourceRecord}
SeqsUpTo(S, n) == UNION {[1..m -> S] : m \in 0..n}
CompleteArticle == ExtractedContent(CompleteRecord)
BareArticle == ExtractedContent(BareRecord)
ArticleLists == {<<CompleteArticle>>, <<BareArticle>>, <<CompleteArticle, BareArticle>>}
Backends == {"ok", "RuntimeError"}
VectorDbTypes == {"chroma", "faiss", "annoy"}
Ks == {1, 2}        \* k of search_similar_articles
\* A directory an earlier run left
EarlierDirectory == Directory(Entries(_prepare_documents(<<BareArticle>>)))
Responses ==
    {Raises("HTTPError"), Returns([status |-> "error", message |-> "rateLimited"])}
    \cup {Returns([status |-> "ok", articles |-> l]) :
            l \in {<<>>, <<CompleteRecord>>, <<BareRecord, CompleteRecord>>,
                   <<NoSourceRecord>>}}
SummaryTypes == {None, "brief", "detailed"}
Llms == {"ok", "APIError"}
RawLists == {<<r>> : r \in RawRecords} \cup SeqsUpTo(SampleRecords, MaxRecords)

----
\* The state after UserManager.__init__ (engine untouched).
InitStore ==
    \E f \in InitialFiles :
        LET r == _load_user_data(f)
        IN /\ file = f
           /\ loadedFrom = f.kind
           /\ user_data = r.value
           /\ phase = IF r.exc = NoExc THEN "ready" ELSE "crashed"
           /\ clock = 1
           /\ last = Called("__init__", None, None, r.exc, FALSE, FALSE)

InitEngine ==
    /\ vector_db_type = "chroma"
    /\ vector_db = NoIndex
    /\ persist_dir = NoDirectory
    /\ built = FALSE
    /\ loaded = FALSE

\* run_cli has not been entered: no articles are shown
NoArticles == [articles |-> <<>>, index |-> 0, back |-> "main"]

InitCli ==
    /\ menu = "main"
    /\ shown = NoArticles

Init == InitStore /\ InitEngine /\ InitCli /\ raw = <<>>

Again(op, arg) == last.op = op /\ last.arg = arg

\* A Store call with outcome r
StoreCall(op, arg, r) ==
    /\ user_data' = r.doc
    /\ file' = r.file
    /\ last' = [Called(op, arg, r.ret, r.exc, r.saved, Again(op, arg))
                EXCEPT !.caught = r.caught]

UpdatePreferences(p) ==
    /\ phase = "ready"
    /\ StoreCall("update_preferences", p, update_preferences(user_data, file, p))
    /\ UNCHANGED <<phase, loadedFrom, clock, appVars>>

AddTopic(t) ==
    /\ phase = "ready"
    /\ HasTopics(user_data) =>
          \/ t \in Range(get_topics(user_data))
          \/ Len(get_topics(user_data)) < MaxTopics
    /\ StoreCall("add_topic", t, add_topic(user_data, file, t))
    /\ UNCHANGED <<phase, loadedFrom, clock, appVars>>

RemoveTopic(t) ==
    /\ phase = "ready"
    /\ StoreCall("remove_topic", t, remove_topic(user_data, file, t))
    /\ UNCHANGED <<phase, loadedFrom, clock, appVars>>

AddSearchHistory(q, n) ==
    /\ phase = "ready"
    /\ Has(user_data, "search_history") => Len(user_data["search_history"]) < MaxHistory
    /\ StoreCall("add_search_history", <<q, n>>,
                 add_search_history(user_data, file, clock, q, n))
    /\ clock' = IF Has(user_data, "search_history") THEN clock + 1 ELSE clock
    /\ UNCHANGED <<phase, loadedFrom, appVars>>

GetSearchHistory(limit) ==
    /\ phase = "ready"
    /\ last' = IF Has(user_data, "search_history")
               THEN Called("get_search_history", limit,
                           get_search_history(user_data["search_history"], limit),
                           NoExc, FALSE, Again("get_search_history", limit))
               ELSE Called("get_search_history", limit, None, "KeyError", FALSE,
                           Again("get_search_history", limit))
    /\ UNCHANGED <<file, user_data, phase, loadedFrom, clock, appVars>>

Next ==
    \/ \E p \in PartialPreferences : UpdatePreferences(p)
    \/ \E t \in Topics : AddTopic(t)
    \/ \E t \in Topics : RemoveTopic(t)
    \/ \E i \in SearchInputs : AddSearchHistory(i[1], i[2])
    \/ \E limit \in Limits : GetSearchHistory(limit)

Spec == Init /\ [][Next]_vars

----
\* Properties of the Store.

Mutators == {"add_topic", "remove_topic", "update_preferences", "add_search_history"}
Returned(ops) == phase = "ready" /\ last.op \in ops /\ last.exc = NoExc
NoDuplicates(s) == \A i, j \in DOMAIN s : s[i] = s[j] => i = j
Count(s, x) == Cardinality({i \in DOMAIN s : s[i] = x})
WithoutIndex(s, i) == SubSeq(s, 1, i - 1) \o SubSeq(s, i + 1, Len(s))
StartedFromDefault == loadedFrom \in {"absent", "malformed"}

\* C1 (as stated): after each mutator returns, the persisted file holds
\* exactly the in-memory document.
C1_FileHoldsDocument ==
    Returned(Mutators) => file = FileText(json_dump(user_data))

\* C1 (amended): after each mutator returns, a Store constructed on the same
\* path reads back the in-memory document; the file holds exactly that
\* document after every call that reached save_user_data, which
\* update_preferences and add_search_history always do; when the file does
\* not hold it, the file is still absent or malformed as at construction
\* and the document is the default one.
C1_ReadBack ==
    Returned(Mutators) =>
        /\ _load_user_data(file) = [exc |-> NoExc, value |-> user_data]
        /\ last.op \in {"update_preferences", "add_search_history"} => last.saved
        /\ last.saved => file = FileText(json_dump(user_data))
        /\ file # FileText(json_dump(user_data)) =>
              /\ file \in {FileAbsent, FileMalformed}
              /\ file.kind = loadedFrom
              /\ user_data = _create_default_user_data

C1_Witness ==
    /\ Returned({"add_search_history"})
    /\ Len(user_data["search_history"]) = MaxHistory
    /\ get_topics(user_data) # <<>>
    /\ file = FileText(json_dump(user_data))

\* C2 (as stated): constructed on an absent or corrupt file, the Store does
\* not raise and holds the default document, and the first mutation writes
\* the document to disk.
C2_DefaultOnAbsentOrCorrupt ==
    loadedFrom \in {"absent", "malformed", "undecodable"} =>
        /\ phase = "ready"
        /\ last.op = "__init__" => user_data = _create_default_user_data
        /\ (last.op \in Mutators /\ last.saved) => file = FileText(json_dump(user_data))

\* C3 (as stated): get_search_history(N), N >= 0, returns at most N entries,
\* the last min(N, |H|) entries of H in their order.
C3_MostRecentAtMostLimit ==
    Returned({"get_search_history"}) =>
        LET h == user_data["search_history"]
            m == Min(last.arg, Len(h))
        IN /\ Len(last.ret) <= last.arg
           /\ last.ret = SubSeq(h, Len(h) - m + 1, Len(h))

\* C8: remove_topic(t) on a list without t returns False and changes neither
\* the document nor the file; on a list with t it returns True and the list
\* loses exactly one occurrence of t, the rest keeping its order.
C8_RemoveTopic ==
    [][(last'.op = "remove_topic" /\ last'.exc = NoExc) =>
          LET t == last'.arg
              L == get_topics(user_data)
          IN IF t \notin Range(L)
             THEN last'.ret = FALSE /\ user_data' = user_data /\ file' = file
             ELSE /\ last'.ret = TRUE
                  /\ \E i \in DOMAIN L :
                        L[i] = t /\ get_topics(user_data') = WithoutIndex(L, i)
                  /\ Count(get_topics(user_data'), t) = Count(L, t) - 1]_vars

C8_Witness ==
    /\ Returned({"remove_topic"})
    /\ last.ret = TRUE
    /\ last.arg \in Range(get_topics(user_data))

\* C9: on a topics list without duplicates, add_topic(t) appends t when it
\* is new and leaves exactly one occurrence of t; a second add_topic(t), and
\* any add_topic of a stored topic, changes neither the document nor the file.
C9_AddTopicIdempotent ==
    [][(last'.op = "add_topic" /\ last'.exc = NoExc
        /\ NoDuplicates(get_topics(user_data))) =>
          LET t == last'.arg
              L == get_topics(user_data)
          IN /\ get_topics(user_data') = IF t \in Range(L) THEN L ELSE Append(L, t)
             /\ Count(get_topics(user_data'), t) = 1
             /\ (t \in Range(L) \/ last'.again) =>
                   user_data' = user_data /\ file' = file]_vars

C9_Witness ==
    /\ Returned({"add_topic"})
    /\ last.again
    /\ ~last.saved
    /\ NoDuplicates(get_topics(user_data))
    /\ Len(get_topics(user_data)) > 1
    /\ get_topics(user_data)[Len(get_topics(user_data))] = last.arg

\* C10 (as stated): from the default document, no sequence of the public
\* mutators leaves a duplicate in the topics list.
C10_NoDuplicateTopics ==
    (StartedFromDefault /\ phase = "ready") => NoDuplicates(get_topics(user_data))

\* C11 (as stated): from the default document, no sequence of the public
\* mutators leaves a summary_type other than "brief" and "detailed".
C11_SummaryTypeRecognized ==
    (StartedFromDefault /\ phase = "ready") =>
        get_preferences(user_data)["summary_type"] \in {"brief", "detailed"}

\* The document has the shape of UserData: preferences with topics (a
\* list), summary_type, language and articles_per_topic, and a
\* search_history list.
IsUserData(d) ==
    /\ DOMAIN d = {"preferences", "search_history"}
    /\ DOMAIN d["preferences"] = {"topics", "summary_type", "language", "articles_per_topic"}

\* C19 (as stated): once the Store is constructed, whatever the user-data
\* file held, its document has the shape of UserData in every state and no
\* accessor or mutator fails.
C19_DocumentHasShape ==
    phase = "ready" =>
        /\ IsUserData(user_data)
        /\ last.exc = NoExc

----
\* The EmbeddingEngine on its own, for every backend type.
InitEngineSpec ==
    /\ vector_db_type \in VectorDbTypes
    /\ vector_db = NoIndex
    /\ persist_dir \in {NoDirectory, EarlierDirectory}
    /\ built = FALSE
    /\ loaded = FALSE
    /\ raw = <<>>
    /\ InitCli
    /\ file = FileAbsent
    /\ loadedFrom = "absent"
    /\ user_data = _create_default_user_data
    /\ phase = "ready"
    /\ clock = 1
    /\ last = Called("__init__", None, None, NoExc, FALSE, FALSE)

\* The store create_vector_db would build stays within MaxIndex documents.
WithinIndexBound(articles) ==
    Len(Stored(persist_dir)) + Len(articles) <= MaxIndex

EngineCall(op, arg, r) ==
    /\ vector_db' = r.db
    /\ persist_dir' = r.dir
    /\ last' = [Called(op, arg, r.ret, r.exc, FALSE, FALSE)
                EXCEPT !.caught = r.caught]

CreateVectorDb(articles, backend) ==
    /\ WithinIndexBound(articles)
    /\ LET r == create_vector_db(vector_db_type, vector_db, persist_dir, articles, backend)
       IN /\ EngineCall("create_vector_db", <<articles, backend>>, r)
          /\ built' = (built \/ r.exc = NoExc)
    /\ UNCHANGED <<storeVars, raw, vector_db_type, loaded, cliVars>>

LoadVectorDb(backend) ==
    /\ LET r == load_vector_db(vector_db_type, vector_db, persist_dir, backend)
       IN /\ EngineCall("load_vector_db", backend, r)
          /\ loaded' = (loaded \/ r.assigned)
    /\ UNCHANGED <<storeVars, raw, vector_db_type, built, cliVars>>

SearchSimilarArticles(k) ==
    /\ \E ranking \in Rankings(Len(Held(vector_db)), k) :
          LET r == search_similar_articles(vector_db, ranking)
          IN last' = Called("search_similar_articles", k, r.value, r.exc, FALSE,
                            FALSE)
    /\ UNCHANGED <<storeVars, appVars>>

NextEngine ==
    \/ \E articles \in ArticleLists, backend \in Backends : CreateVectorDb(articles, backend)
    \/ \E backend \in Backends : LoadVectorDb(backend)
    \/ \E k \in Ks : SearchSimilarArticles(k)

SpecEngine == InitEngineSpec /\ [][NextEngine]_vars

C13_LoadIsFaithful ==
    last.op = "load_vector_db" =>
        /\ last.exc = NoExc
        /\ last.ret \in BOOLEAN
        /\ last.ret = TRUE =>
              /\ vector_db # NoIndex
              /\ Held(vector_db) = Stored(persist_dir)
              /\ \A k \in Ks : \A ranking \in Rankings(Len(Held(vector_db)), k) :
                    search_similar_articles(vector_db, ranking).exc # NotInitialized

\* The fields of an Article
ArticleFields ==
    {"title", "source", "author", "description", "content", "url", "publishedAt",
     "urlToImage"}

\* C14 (as stated): the document create_vector_db stores for an article has
\* the article's title, description and content as its text and a metadata
\* mapping with every Article field, and every record search_similar_articles
\* returns carries all Article fields.
C14_DocumentCarriesArticle ==
    /\ (last.op = "create_vector_db" /\ last.exc = NoExc) =>
          LET articles == last.arg[1]
              docs == Held(vector_db)
              first == Len(docs) - Len(articles)
          IN \A i \in DOMAIN articles :
                /\ docs[first + i].page_content =
                      <<articles[i]["title"], " ", articles[i]["description"], " ",
                        articles[i]["content"]>>
                /\ \A k \in ArticleFields :
                      /\ Has(docs[first + i].metadata, k)
                      /\ docs[first + i].metadata[k] = articles[i][k]
    /\ (last.op = "search_similar_articles" /\ last.exc = NoExc) =>
          \A i \in DOMAIN last.ret : ArticleFields \subseteq DOMAIN last.ret[i]

----
\* The orchestrator: NewsApp's operations and its two searching menus.
InitApp ==
    /\ \E f \in {FileAbsent, FileText(json_dump(EarlierDocument)), FileText(JObj(<<>>))} :
          /\ file = f
          /\ loadedFrom = f.kind
          /\ user_data = _load_user_data(f).value
    /\ phase = "ready"
    /\ clock = 1
    /\ last = Called("__init__", None, None, NoExc, FALSE, FALSE)
    /\ InitEngine
    /\ InitCli
    /\ raw = <<>>

HistoryNotFull ==
    Has(user_data, "search_history") => Len(user_data["search_history"]) < MaxHistory

Tick(r) == clock' = IF r.saved THEN clock + 1 ELSE clock

RawOf(response) ==
    IF response.exc = NoExc /\ Has(response.value, "articles")
    THEN response.value["articles"] ELSE <<>>

SearchNews(query, response) ==
    /\ phase = "ready"
    /\ HistoryNotFull
    /\ LET r == search_news(user_data, file, clock, query, response)
       IN /\ StoreCall("search_news", query, r)
          /\ Tick(r)
    /\ raw' = RawOf(response)
    /\ UNCHANGED <<phase, loadedFrom, engineVars, cliVars>>

AddArticlesToVectorDb(articles, backend) ==
    /\ phase = "ready"
    /\ WithinIndexBound(articles)
    /\ LET r == add_articles_to_vector_db(vector_db_type, vector_db, persist_dir,
                                          articles, backend)
       IN /\ EngineCall("add_articles_to_vector_db", articles, r)
          /\ built' = (built \/ r.assigned)
    /\ UNCHANGED <<storeVars, raw, vector_db_type, loaded, cliVars>>

FindSimilarArticles(k) ==
    /\ phase = "ready"
    /\ \E ranking \in Rankings(Len(Held(vector_db)), k) :
          LET r == find_similar_articles(vector_db, ranking)
          IN last' = [Called("find_similar_articles", k, r.value, r.exc, FALSE,
                             FALSE)
                      EXCEPT !.caught = r.caught]
    /\ UNCHANGED <<storeVars, appVars>>

SummarizeArticle(article, summary_type, llm) ==
    /\ phase = "ready"
    /\ LET r == summarize_article(user_data, article, summary_type, llm)
           arg == [article |-> article, summary_type |-> summary_type]
       IN last' = [Called("summarize_article", arg, r.value, r.exc, FALSE,
                          FALSE)
                   EXCEPT !.caught = r.caught]
    /\ UNCHANGED <<storeVars, appVars>>

\* A menu that searches: r is what SearchAndIndex leaves. An exception
\* leaving the menu leaves run_cli and ends the program.
MenuSearch(op, arg, r) ==
    /\ user_data' = r.doc
    /\ file' = r.file
    /\ vector_db' = r.db
    /\ persist_dir' = r.dir
    /\ built' = (built \/ r.rebuilt)
    /\ clock' = IF r.searched THEN clock + 1 ELSE clock
    /\ phase' = IF r.exc = NoExc THEN "ready" ELSE "crashed"
    /\ last' = [Called(op, arg, r.found, r.exc, r.searched, FALSE)
                EXCEPT !.caught = r.caught]

\* _search_news_menu on an empty query
SearchNewsMenuEmpty ==
    /\ phase = "ready"
    /\ last' = Called("_search_news_menu", "", <<>>, NoExc, FALSE,
                      FALSE)
    /\ UNCHANGED <<storeVars, appVars>>

SearchNewsMenu(query, response, backend) ==
    /\ phase = "ready"
    /\ HistoryNotFull
    /\ WithinIndexBound(RawOf(response))
    /\ MenuSearch("_search_news_menu", query,
                  SearchAndIndex(user_data, file, clock, vector_db_type, vector_db,
                                 persist_dir, query, response, backend))
    /\ raw' = RawOf(response)
    /\ UNCHANGED <<loadedFrom, vector_db_type, loaded, cliVars>>

\* One choice of a topic number in _view_saved_topics_menu
ViewSavedTopicsMenu(choice, response, backend) ==
    /\ phase = "ready"
    /\ HistoryNotFull
    /\ HasTopics(user_data)
    /\ choice \in DOMAIN get_topics(user_data)
    /\ WithinIndexBound(RawOf(response))
    /\ LET topic == get_topics(user_data)[choice]
       IN MenuSearch("_view_saved_topics_menu", topic,
                     SearchAndIndex(user_data, file, clock, vector_db_type, vector_db,
                                    persist_dir, topic, response, backend))
    /\ raw' = RawOf(response)
    /\ UNCHANGED <<loadedFrom, vector_db_type, loaded, cliVars>>

NextApp ==
    \/ \E q \in Queries, response \in Responses : SearchNews(q, response)
    \/ \E articles \in ArticleLists, backend \in Backends :
          AddArticlesToVectorDb(articles, backend)
    \/ \E k \in Ks : FindSimilarArticles(k)
    \/ \E article \in {CompleteArticle, BareArticle}, st \in SummaryTypes, llm \in Llms :
          SummarizeArticle(article, st, llm)
    \/ SearchNewsMenuEmpty
    \/ \E q \in Queries, response \in Responses, backend \in Backends :
          SearchNewsMenu(q, response, backend)
    \/ \E choice \in 1..MaxTopics, response \in Responses, backend \in Backends :
          ViewSavedTopicsMenu(choice, response, backend)

SpecApp == InitApp /\ [][NextApp]_vars

\* The exceptions the retriever, the embedding index and the summarizer raise
ComponentFailures ==
    {"HTTPError", "AttributeError", "RuntimeError", "ValueError", NotInitialized, "APIError"}

\* C6: no failure of the retriever, the index or the summarizer leaves an
\* operation of the orchestrator: having caught one, search_news and
\* find_similar_articles return [], add_articles_to_vector_db returns
\* normally, summarize_article returns the fixed error string, and the
\* application keeps running.
C6_FailuresAreCaught ==
    /\ last.op \in {"search_news", "find_similar_articles", "add_articles_to_vector_db"} =>
          last.exc = NoExc /\ phase = "ready"
    /\ last.op = "summarize_article" => last.exc \notin ComponentFailures
    /\ (last.op \in {"search_news", "find_similar_articles"} /\ last.caught # NoExc) =>
          last.ret = <<>>
    /\ (last.op = "add_articles_to_vector_db" /\ last.caught # NoExc) => last.ret = None
    /\ (last.op = "summarize_article" /\ last.caught # NoExc) =>
          last.exc = NoExc /\ last.ret = ErrorSummary /\ phase = "ready"

HistoryLength(d) ==
    IF Has(d, "search_history") THEN Len(d["search_history"]) ELSE 0

C6_Witness ==
    /\ last.op = "search_news"
    /\ last.caught = "HTTPError"
    /\ last.ret = <<>>
    /\ phase = "ready"
    /\ HistoryLength(user_data) = 1
    /\ vector_db # NoIndex

Menus == {"_search_news_menu", "_view_saved_topics_menu"}

\* C7 (as stated): after every search a menu performed (a history entry
\* was written and nothing failed), the index, in memory and on disk, holds
\* exactly the documents of that search's articles.
C7_IndexHoldsLastSearch ==
    (last.op \in Menus /\ last.saved /\ last.caught = NoExc /\ last.exc = NoExc) =>
        /\ Held(vector_db) = Entries(_prepare_documents(last.ret))
        /\ Stored(persist_dir) = Entries(_prepare_documents(last.ret))

\* s is an initial part of t
IsPrefix(s, t) == Len(s) <= Len(t) /\ SubSeq(t, 1, Len(s)) = s

\* A step in which search_news was called (directly or from a menu)
SearchCalled(op, arg) == op = "search_news" \/ (op \in Menus /\ arg # "")

\* C17 (as stated): no step removes, reorders or alters an entry of the
\* search history; a search_news call whose response has status "ok" (here:
\* it wrote an entry or the response carried articles) appends exactly one
\* entry, with the query and the number of articles returned, also when the
\* index rebuild that follows fails; every other search_news call appends
\* nothing.
C17_AppendOnlyHistory ==
    [][Has(user_data, "search_history") =>
          LET h == user_data["search_history"]
          IN /\ Has(user_data', "search_history")
             /\ IsPrefix(h, user_data'["search_history"])
             /\ Len(user_data'["search_history"]) <= Len(h) + 1
             /\ SearchCalled(last'.op, last'.arg) =>
                   IF last'.saved \/ raw' # <<>>
                   THEN /\ user_data'["search_history"] =
                              Append(h, SearchHistoryEntry(last'.arg, clock, Len(last'.ret)))
                        /\ file' = FileText(json_dump(user_data'))
                   ELSE user_data'["search_history"] = h
             /\ ~SearchCalled(last'.op, last'.arg) => user_data'["search_history"] = h]_vars

----
\* run_cli: the interactive loop, one step per input typed.

\* A record the provider returns with a description of null
NullDescriptionRecord ==
    [title |-> "title", description |-> None, url |-> "url",
     source |-> DictObject([name |-> "source name"])]

CliResponses ==
    {Raises("HTTPError")}
    \cup {Returns([status |-> "ok", articles |-> l]) :
            l \in {<<>>, <<CompleteRecord>>, <<CompleteRecord, NullDescriptionRecord>>}}

MainChoices == {<<"1">>, <<"2">>, <<"3">>, <<"4">>, <<"5">>, <<"6">>, <<"7">>, <<>>}
QueryTexts == {<<>>, <<"a", "i">>}
ArticlesChoices == {<<"b">>, <<"S">>, <<"1">>, <<"2">>, <<"3">>, <<"0">>, <<"x">>}
ArticleChoices == {<<"1">>, <<"2">>, <<"3">>, <<"4">>, <<"5">>}
SavedTopicsChoices == {<<"B">>, <<"1">>, <<"2">>, <<"9">>, <<"x">>}
ManageTopicsChoices == {<<"a">>, <<"R">>, <<"B">>, <<"x">>}
TopicTexts == {<<>>, <<"a", "i">>}
TopicNumbers == {<<"1">>, <<"2">>, <<"0">>, <<"x">>}
PreferencesChoices == {<<"1">>, <<"2">>, <<"3">>, <<"b">>, <<"x">>}
SummaryChoices == {<<"1">>, <<"2">>, <<"3">>}
NumberTexts == {<<"1">>, <<"2", "0">>, <<"2", "1">>, <<"0">>, <<"-", "3">>, <<"x">>, <<>>}
LanguageTexts == {<<"F", "R">>, <<"e", "n">>, <<"f">>, <<>>}

Self ==
    [doc |-> user_data, file |-> file, now |-> clock, type |-> vector_db_type,
     db |-> vector_db, dir |-> persist_dir, shown |-> shown]

\* run_cli waits at prompt m
At(m) == phase = "ready" /\ menu = m

\* One input handled at the prompt of method op, leaving r
CliStep(op, arg, r) ==
    /\ user_data' = r.doc
    /\ file' = r.file
    /\ vector_db' = r.db
    /\ persist_dir' = r.dir
    /\ built' = (built \/ r.rebuilt)
    /\ clock' = IF r.searched THEN clock + 1 ELSE clock
    /\ phase' = IF r.exc = NoExc THEN "ready" ELSE "crashed"
    /\ menu' = r.menu
    /\ shown' = r.shown
    /\ last' = Called(op, arg, r.ret, r.exc, r.searched, FALSE)
    /\ UNCHANGED <<loadedFrom, vector_db_type, loaded>>

\* What a searching step records of its input: the text typed, the
\* request search_news issued for query (none when the step did not search)
\* and what the provider and the vector store answered.
NoRequest == [issued |-> FALSE]
SearchInput(text, query, response, backend) ==
    [input |-> text, response |-> response, backend |-> backend,
     request |-> IF query # "" /\ HasPageSize(user_data)
                 THEN [issued |-> TRUE, params |-> MenuRequest(user_data, query, clock)]
                 ELSE NoRequest]

CanSearch(response) == clock <= MaxSearches /\ WithinIndexBound(RawOf(response))

CliMain(choice) ==
    /\ At("main")
    /\ CliStep("run_cli", choice, run_cli(Self, choice))
    /\ UNCHANGED raw

CliSearchQuery(query, response, backend) ==
    /\ At("search_query")
    /\ CanSearch(response)
    /\ CliStep("_search_news_menu", SearchInput(query, Text(query), response, backend),
               _search_news_menu(Self, query, response, backend))
    /\ raw' = IF query = <<>> THEN raw ELSE RawOf(response)

CliArticles(choice, llm) ==
    /\ At("articles")
    /\ CliStep("_display_articles_menu", choice, _display_articles_menu(Self, choice, llm))
    /\ UNCHANGED raw

CliArticle(choice, llm) ==
    /\ At("article")
    /\ CliStep("_view_article_menu", choice, _view_article_menu(Self, choice, llm))
    /\ UNCHANGED raw

CliSavedTopics(choice, response, backend) ==
    /\ At("saved_topics")
    /\ CanSearch(response)
    /\ LET n == int(choice)
           topics == get_topics(user_data)
           chosen == n.exc = NoExc /\ n.value \in DOMAIN topics
       IN /\ CliStep("_view_saved_topics_menu",
                     SearchInput(choice, IF chosen THEN topics[n.value] ELSE "",
                                 response, backend),
                     _view_saved_topics_menu(Self, choice, response, backend))
          /\ raw' = IF chosen THEN RawOf(response) ELSE raw

CliManageTopics(choice) ==
    /\ At("manage_topics")
    /\ CliStep("_manage_topics_menu", choice, _manage_topics_menu(Self, choice))
    /\ UNCHANGED raw

CliAddTopic(topic) ==
    /\ At("add_topic")
    /\ CliStep("_manage_topics_menu", topic, _manage_topics_menu_add(Self, topic))
    /\ UNCHANGED raw

CliRemoveTopic(topic_num) ==
    /\ At("remove_topic")
    /\ CliStep("_manage_topics_menu", topic_num, _manage_topics_menu_remove(Self, topic_num))
    /\ UNCHANGED raw

CliSearchHistory ==
    /\ At("search_history")
    /\ CliStep("_view_search_history_menu", <<>>, _view_search_history_menu(Self))
    /\ UNCHANGED raw

CliPreferences(choice) ==
    /\ At("preferences")
    /\ CliStep("_update_preferences_menu", choice, _update_preferences_menu(Self, choice))
    /\ UNCHANGED raw

CliSummaryType(summary_choice) ==
    /\ At("summary_type")
    /\ CliStep("_update_preferences_menu", summary_choice,
               _update_preferences_menu_summary_type(Self, summary_choice))
    /\ UNCHANGED raw

CliArticlesPerTopic(text) ==
    /\ At("articles_per_topic")
    /\ CliStep("_update_preferences_menu", text,
               _update_preferences_menu_articles_per_topic(Self, text))
    /\ UNCHANGED raw

CliLanguage(lang) ==
    /\ At("language")
    /\ CliStep("_update_preferences_menu", lang, _update_preferences_menu_language(Self, lang))
    /\ UNCHANGED raw

NextCli ==
    \/ \E choice \in MainChoices : CliMain(choice)
    \/ \E query \in QueryTexts, response \in CliResponses, backend \in Backends :
          CliSearchQuery(query, response, backend)
    \/ \E choice \in ArticlesChoices, llm \in Llms : CliArticles(choice, llm)
    \/ \E choice \in ArticleChoices, llm \in Llms : CliArticle(choice, llm)
    \/ \E choice \in SavedTopicsChoices, response \in CliResponses, backend \in Backends :
          CliSavedTopics(choice, response, backend)
    \/ \E choice \in ManageTopicsChoices : CliManageTopics(choice)
    \/ \E topic \in TopicTexts : CliAddTopic(topic)
    \/ \E topic_num \in TopicNumbers : CliRemoveTopic(topic_num)
    \/ CliSearchHistory
    \/ \E choice \in PreferencesChoices : CliPreferences(choice)
    \/ \E summary_choice \in SummaryChoices : CliSummaryType(summary_choice)
    \/ \E text \in NumberTexts : CliArticlesPerTopic(text)
    \/ \E lang \in LanguageTexts : CliLanguage(lang)

\* NewsApp() constructed on an absent user-data file, or on one holding {}
InitRunCli ==
    /\ \E f \in {FileAbsent, FileText(JObj(<<>>))} :
          /\ file = f
          /\ loadedFrom = f.kind
          /\ user_data = _load_user_data(f).value
    /\ phase = "ready"
    /\ clock = 1
    /\ last = Called("__init__", None, None, NoExc, FALSE, FALSE)
    /\ InitEngine
    /\ InitCli
    /\ raw = <<>>

SpecCli == InitRunCli /\ [][NextCli]_vars

\* C12: in run_cli, started on a document whose articles_per_topic is
\* within [1,20], the stored articles_per_topic stays an integer within
\* [1,20]; at the number prompt of the preferences menu a non-numeric or
\* out-of-range entry prints a message and changes neither the document nor
\* the file, and an entry within range is the value stored and persisted.
C12_ArticlesPerTopicInRange ==
    /\ [](HasPageSize(user_data) =>
            get_preferences(user_data)["articles_per_topic"] \in 1..20)
    /\ [][menu = "articles_per_topic" =>
            LET num == int(last'.arg)
            IN IF num.exc # NoExc \/ num.value \notin 1..20
               THEN /\ last'.ret.printed \in {"Invalid number.",
                                            "Number must be between 1 and 20."}
                    /\ user_data' = user_data
                    /\ file' = file
                    /\ phase' = "ready"
               ELSE /\ get_preferences(user_data')["articles_per_topic"] = num.value
                    /\ file' = FileText(json_dump(user_data'))]_vars

C12_Witness ==
    /\ last.op = "_update_preferences_menu"
    /\ last.ret.printed = "Number must be between 1 and 20."
    /\ Text(last.arg) = "21"
    /\ get_preferences(user_data)["articles_per_topic"] = 20
    /\ menu = "preferences"

----
\* Summarizer.summarize on its own, applied to articles whose title, source,
\* description and content each are missing, None, empty or a text.
SummarizedFields == {"title", "source", "description", "content"}
SummarizerArticles ==
    UNION {[S -> {None, "", "text"}] : S \in SUBSET SummarizedFields}
SummarizerTypes == {"brief", "detailed", "verbose"}

InitSummarize ==
    /\ InitEngine
    /\ file = FileAbsent
    /\ loadedFrom = "absent"
    /\ user_data = _create_default_user_data
    /\ phase = "ready"
    /\ clock = 1
    /\ raw = <<>>
    /\ menu = "article"
    /\ \E article \in SummarizerArticles :
          shown = [articles |-> <<article>>, index |-> 1, back |-> "main"]
    /\ last = Called("__init__", None, None, NoExc, FALSE, FALSE)

Summarize(summary_type, llm) ==
    /\ last.op = "__init__"
    /\ LET article == shown.articles[shown.index]
           r == summarize(article, summary_type, llm)
       IN last' = Called("summarize", [summary_type |-> summary_type, llm |-> llm],
                         r.value, r.exc, FALSE, FALSE)
    /\ UNCHANGED <<storeVars, appVars>>

NextSummarize == \E summary_type \in SummarizerTypes, llm \in Llms : Summarize(summary_type, llm)

SpecSummarize == InitSummarize /\ [][NextSummarize]_vars

\* The label of the section of a field
SectionLabel(k) ==
    CASE k = "title" -> "Title"
      [] k = "source" -> "Source"
      [] k = "description" -> "Description"
      [] k = "content" -> "Content"

\* C15 (as stated): no missing or empty field makes summarize fail, and the
\* composite text has a section for each of title, source, description and
\* content exactly when the article carries a non-empty value for it.
C15_SectionIffNonEmpty ==
    last.op = "summarize" =>
        LET article == shown.articles[shown.index]
        IN /\ last.exc \in {NoExc, "APIError"}
           /\ last.exc = NoExc =>
                 \A k \in SummarizedFields :
                    (\E i \in DOMAIN last.ret.docs : last.ret.docs[i].label = SectionLabel(k))
                       <=> Truthy(DictGet(article, k, None))

\* C16 (as stated): summarize uses the map_reduce chain with the brief
\* prompt exactly when summary_type is "brief", and the stuff chain with the
\* detailed prompt exactly when summary_type is "detailed".
C16_StrategyFromSummaryType ==
    (last.op = "summarize" /\ last.exc = NoExc) =>
        /\ (last.ret.chain_type = "map_reduce" /\ last.ret.template = "brief")
              <=> last.arg.summary_type = "brief"
        /\ (last.ret.chain_type = "stuff" /\ last.ret.template = "detailed")
              <=> last.arg.summary_type = "detailed"

\* The menu the loop of which a prompt belongs to
MenuOf(prompt) ==
    CASE prompt \in {"summary_type", "articles_per_topic", "language"} -> "preferences"
      [] prompt \in {"add_topic", "remove_topic"} -> "manage_topics"
      [] OTHER -> prompt

\* What the menus print on an invalid choice or number
InvalidMessages ==
    {InvalidChoice, "Invalid choice.", "Invalid article number.", "Invalid topic number.",
     "Invalid number.", "Number must be between 1 and 20."}

\* The document has the shape of UserData
Shaped(d) == PreferencesShown(d) /\ HasTopics(d) /\ Has(d, "search_history")

\* C18 (as stated): on a document of the shape of UserData, run_cli ends
\* only by the choice "6" of the main menu, never by an exception; an input
\* answered with an invalid-choice or invalid-number message changes neither
\* the document nor the file and leaves run_cli in the same menu.
C18_InputErrorsAreHarmless ==
    /\ [](Shaped(user_data) =>
            /\ phase = "ready"
            /\ menu = "exited" => (last.op = "run_cli" /\ Text(last.arg) = "6"))
    /\ [][(Shaped(user_data) /\ last'.exc = NoExc /\ last'.ret.printed \in InvalidMessages) =>
            /\ user_data' = user_data
            /\ file' = file
            /\ menu' = MenuOf(menu)]_vars

Languages == {"en", "fr", "de"}

\* C20: a search from a menu does not depend on the stored language: had
\* the document differed only in preferences.language, the same input
\* would have issued the same request (language "en", pageSize the stored
\* articles_per_topic), shown the same articles, left the same index and
\* appended the same history entry.
C20_LanguageDoesNotInfluenceSearch ==
    [][(menu \in {"search_query", "saved_topics"} /\ last'.arg.request.issued) =>
          LET a == last'.arg
              handled(self) ==
                  IF menu = "search_query"
                  THEN _search_news_menu(self, a.input, a.response, a.backend)
                  ELSE _view_saved_topics_menu(self, a.input, a.response, a.backend)
          IN /\ a.request.params.language = "en"
             /\ a.request.params.pageSize = get_preferences(user_data)["articles_per_topic"]
             /\ handled(Self).doc = user_data'
             /\ \A lang \in Languages :
                   LET d == [user_data EXCEPT !["preferences"]["language"] = lang]
                       other == handled([Self EXCEPT !.doc = d])
                   IN /\ MenuRequest(d, a.request.params.q, clock) = a.request.params
                      /\ other.doc = [user_data' EXCEPT !["preferences"]["language"] = lang]
                      /\ other.shown = shown'
                      /\ other.menu = menu'
                      /\ other.db = vector_db'
                      /\ other.dir = persist_dir'
                      /\ other.ret = last'.ret
                      /\ other.exc = last'.exc]_vars

C20_Witness ==
    /\ last.op \in Menus
    /\ last.saved
    /\ last.arg.request.issued
    /\ get_preferences(user_data)["language"] = "fr"
    /\ menu = "articles"
    /\ Len(shown.articles) = 2

----
\* extract_article_content on its own, applied to every list of RawLists.
InitNormalize ==
    /\ InitEngine
    /\ InitCli
    /\ file = FileAbsent
    /\ loadedFrom = "absent"
    /\ user_data = _create_default_user_data
    /\ phase = "ready"
    /\ clock = 1
    /\ raw \in RawLists
    /\ last = Called("get_articles", None, None, NoExc, FALSE, FALSE)

ExtractArticleContent ==
    /\ last.op = "get_articles"
    /\ LET r == extract_article_content(raw)
       IN last' = Called("extract_article_content", raw, r.value, r.exc, FALSE, FALSE)
    /\ UNCHANGED <<storeVars, appVars>>

NextNormalize == ExtractArticleContent

SpecNormalize == InitNormalize /\ [][NextNormalize]_vars

\* The documented default of each Article field.
DefaultOf(k) ==
    CASE k = "source" -> "Unknown Source"
      [] k = "author" -> "Unknown Author"
      [] OTHER -> ""

\* Field k of a raw record is missing (for source: the source or its name).
Missing(r, k) ==
    IF k = "source"
    THEN ~Has(r, "source") \/ (r["source"].type = "dict" /\ ~Has(r["source"].items, "name"))
    ELSE ~Has(r, k)

\* C4 (as stated): extract_article_content never raises, whichever optional
\* fields a record lacks or carries without a value; it returns one Article
\* per record, in order, each missing field replaced by its default.
C4_NormalizeNeverRaises ==
    last.op = "extract_article_content" =>
        /\ last.exc = NoExc
        /\ Len(last.ret) = Len(raw)
        /\ \A i \in DOMAIN raw : \A k \in SimpleKeys \cup {"source"} :
              /\ Missing(raw[i], k) => last.ret[i][k] = DefaultOf(k)
              /\ (Has(raw[i], k) /\ k # "source") => last.ret[i][k] = raw[i][k]

====
